---------------------------- MODULE Spec2Model ----------------------------
(***************************************************************************)
(* Model of the Keyboard shortcut registry (src/unnamed/part_003, class     *)
(* Keyboard) and of the Pointer drag registry (src/pointer.js, class       *)
(* Pointer) of webframer/js, with the constants they read from             *)
(* src/constants.js.                                                       *)
(*                                                                         *)
(* JavaScript strings are sequences of one-character strings, compared by  *)
(* UTF-16 code unit as Array.prototype.sort() does.  JavaScript values     *)
(* that the code inspects by type are records with a "type" field.         *)
(***************************************************************************)
EXTENDS Integers, Sequences, FiniteSets, TLC

VARIABLES
  isMacLike,        \* constants.js: platform flag, fixed at load time
  _shortcuts,       \* Keyboard._shortcuts: entries in property insertion order
  pressed,          \* Keyboard.pressed: the property names whose value is true
  pressedKeyCode,   \* Keyboard.pressedKeyCode: the key codes whose value is true
  held,             \* the raw key codes whose key-down was processed and whose
                    \* key-up was not yet (kept for the claims, the code has none)
  last,             \* the last call made on the keyboard or the pointer:
                    \* arguments and outcome
  _dragNodes,       \* Pointer._dragNodes: the Map from element to drag entry
  pointerDownEvent, \* Pointer.pointerDownEvent
  pointerMoveCount, \* Pointer.pointerMoveCount
  subscribedNode,   \* Pointer.subscribedNode
  hadDrag,          \* Pointer.hadDrag
  moveSubscribed,   \* whether _onPointerMove is subscribed to 'pointermove'
  gesture,          \* the events and handler calls since the last pointer-down
                    \* that found an entry (kept for the claims, the code has
                    \* none)
  downButton,       \* the host's pointer: the buttons that are down
  listeners         \* the host's listeners: for each event type of the
                    \* keyboard and the pointer, the handlers subscribed to it

pointerVars == <<_dragNodes, pointerDownEvent, pointerMoveCount, subscribedNode,
                 hadDrag, moveSubscribed, gesture>>

keyboardVars == <<isMacLike, _shortcuts, pressed, pressedKeyCode, held>>

hostVars == <<downButton, listeners>>

vars == <<isMacLike, _shortcuts, pressed, pressedKeyCode, held, last,
          pointerVars, hostVars>>

---------------------------------------------------------------------------
(* Bounds of the model *)

\* most entries the registry holds
MaxShortcuts == 3
\* most entries the registry holds while key events are delivered
MaxDispatchShortcuts == 2
\* most keys held down at one time
MaxHeld == 2

---------------------------------------------------------------------------
(* constants.js *)

KEY_LEFT_CLICK == 0
KEY_Ctrl == -17
KEY_Tab == 9
KEY_Control == 17
KEY_p == 80
KEY_MetaLeft == 91
KEY_MetaRight == 93
TIME_DURATION_INSTANT == 200


\* The KEY table in `for in` order, restricted to the codes of the model
KEY ==
  << <<"Ctrl", KEY_Ctrl>>, <<"Tab", KEY_Tab>>,
     <<"ControlLeft", KEY_Control>>, <<"ControlRight", KEY_Control>>,
     <<"Control", KEY_Control>>,
     <<"MetaLeft", KEY_MetaLeft>>, <<"MetaRight", KEY_MetaRight>>,
     <<"p", KEY_p>>, <<"KeyP", KEY_p>> >>

---------------------------------------------------------------------------
(* JavaScript values *)

undefined == [type |-> "undefined"]
Str(chars) == [type |-> "string", value |-> chars]
Num(n) == [type |-> "number", value |-> n]
List(items) == [type |-> "list", items |-> items]
Fn(name) == [type |-> "function", name |-> name]

\* UTF-16 code unit of the characters the model's strings are made of
CharCode(c) ==
  CASE c = "," -> 44 [] c = "-" -> 45
    [] c = "0" -> 48 [] c = "1" -> 49 [] c = "2" -> 50 [] c = "3" -> 51
    [] c = "4" -> 52 [] c = "5" -> 53 [] c = "6" -> 54 [] c = "7" -> 55
    [] c = "8" -> 56 [] c = "9" -> 57
    [] c = "A" -> 65 [] c = "B" -> 66 [] c = "_" -> 95
    [] c = "d" -> 100 [] c = "e" -> 101 [] c = "f" -> 102 [] c = "i" -> 105
    [] c = "n" -> 110 [] c = "u" -> 117

Digits == <<"0", "1", "2", "3", "4", "5", "6", "7", "8", "9">>

RECURSIVE NatToString(_)
NatToString(n) ==
  IF n < 10 THEN <<Digits[n + 1]>>
  ELSE NatToString(n \div 10) \o <<Digits[(n % 10) + 1]>>

\* String(n) of an integer
NumberToString(n) == IF n < 0 THEN <<"-">> \o NatToString(-n) ELSE NatToString(n)

\* String(v) and `${v}` of undefined, a string or an integer
StringOf(v) ==
  IF v.type = "undefined" THEN <<"u", "n", "d", "e", "f", "i", "n", "e", "d">>
  ELSE IF v.type = "number" THEN NumberToString(v.value)
  ELSE v.value

\* a < b in code unit order
RECURSIVE StringLess(_, _)
StringLess(a, b) ==
  IF b = <<>> THEN FALSE
  ELSE IF a = <<>> THEN TRUE
  ELSE IF CharCode(Head(a)) # CharCode(Head(b))
       THEN CharCode(Head(a)) < CharCode(Head(b))
       ELSE StringLess(Tail(a), Tail(b))

\* x goes before the first element whose string is greater than its own
RECURSIVE SortInsert(_, _)
SortInsert(x, sorted) ==
  IF sorted = <<>> THEN <<x>>
  ELSE IF StringLess(StringOf(x), StringOf(Head(sorted))) THEN <<x>> \o sorted
  ELSE <<Head(sorted)>> \o SortInsert(x, Tail(sorted))

RECURSIVE ArraySortFrom(_, _)
ArraySortFrom(list, sorted) ==
  IF list = <<>> THEN sorted
  ELSE ArraySortFrom(Tail(list), SortInsert(Head(list), sorted))

\* sort() left out: the list in the order given
ArraySortOmitted(list) == list

\* Array.prototype.sort() without a comparator: elements ordered by their strings
ArraySort(list) == ArraySortFrom(list, <<>>)

\* Array.prototype.join() with the default separator ","
RECURSIVE ArrayJoin(_)
ArrayJoin(list) ==
  IF list = <<>> THEN <<>>
  ELSE IF Len(list) = 1 THEN StringOf(list[1])
  ELSE StringOf(Head(list)) \o <<",">> \o ArrayJoin(Tail(list))

\* array.js toList: a list as it is, any other value as a one-element list
toList(v) == IF v.type = "list" THEN v.items ELSE <<v>>

\* array.js isList and function.js isFunction
isList(v) == v.type = "list"
isFunction(v) == v.type = "function"

Range(s) == {s[i] : i \in DOMAIN s}

\* what is recorded of a gesture: the element the pointer-down found, whether
\* subscribedNode was unset then, whether the element's entry has stayed as it
\* was and every handler has returned (`intact`), whether onDragStart was
\* called, and, while intact, the events delivered and the handler
\* properties called
noGesture == [node |-> "none", fromIdle |-> TRUE, intact |-> TRUE,
              started |-> FALSE, events |-> <<>>, calls |-> <<>>]

---------------------------------------------------------------------------
(* Keyboard: fields *)

\* the textarea entry left out
ignoreEventsFromInputOnly == {"input"}

ignoreEventsFrom == {"input", "textarea"}

\* the two platforms' tables taken for each other
_ctrlKeyCodeSwapped ==
  IF isMacLike
  THEN (KEY_Control :> KEY_Ctrl)
  ELSE (KEY_MetaLeft :> KEY_Ctrl) @@ (KEY_MetaRight :> KEY_Ctrl)

_ctrlKeyCode ==
  IF isMacLike
  THEN (KEY_MetaLeft :> KEY_Ctrl) @@ (KEY_MetaRight :> KEY_Ctrl)
  ELSE (KEY_Control :> KEY_Ctrl)

\* object.js swapKeyWithValue: a later key of the same value overwrites an earlier one
RECURSIVE swapKeyWithValueFrom(_, _)
swapKeyWithValueFrom(obj, result) ==
  IF obj = <<>> THEN result
  ELSE swapKeyWithValueFrom(Tail(obj), (Head(obj)[2] :> Head(obj)[1]) @@ result)

swapKeyWithValue(obj) == swapKeyWithValueFrom(obj, <<>>)

_keyByCode == swapKeyWithValue(KEY)

\* the unified Ctrl recorded in `pressed` under the name of the Control key
keyNameOfControl(keyCode) ==
  IF keyCode = KEY_Ctrl THEN _keyByCode[KEY_Control]
  ELSE IF keyCode \in DOMAIN _keyByCode THEN _keyByCode[keyCode]
  ELSE "undefined"

\* the property name `this._keyByCode[keyCode]` turns into
keyName(keyCode) ==
  IF keyCode \in DOMAIN _keyByCode THEN _keyByCode[keyCode] ELSE "undefined"

\* this._ctrlKeyCode[event.keyCode] || event.keyCode
ctrlKeyCodeOr(keyCode) ==
  IF keyCode \in DOMAIN _ctrlKeyCode THEN _ctrlKeyCode[keyCode] ELSE keyCode

\* hasKeyPress
hasKeyPress(keyCode) == keyCode \in pressedKeyCode

\* the lookup made with `keys` as the property name, as before owner ids
hasShortcutByKeys(keysId) ==
  \E i \in DOMAIN _shortcuts : _shortcuts[i].keys = keysId

\* this._shortcuts[keysId], when it exists
hasShortcut(keysId) == \E i \in DOMAIN _shortcuts : _shortcuts[i].keysId = keysId
shortcutAt(keysId) ==
  _shortcuts[CHOOSE i \in DOMAIN _shortcuts : _shortcuts[i].keysId = keysId]

---------------------------------------------------------------------------
(* Keyboard: addShortcut *)

\* [...toList(keyCodes)].sort().join()
comboKeys(keyCodes) == ArrayJoin(ArraySort(toList(keyCodes)))

\* `${keys}_${id}`
comboKeysId(keys, id) == keys \o <<"_">> \o StringOf(id)

\* id || callback, with '' the only falsy string
idOrCallback(id, callback) ==
  IF id.type = "undefined" \/ (id.type = "string" /\ id.value = <<>>)
  THEN callback ELSE id

\* this._shortcuts[keysId] = entry: an existing property keeps its place
setShortcut(keysId, entry) ==
  IF \E i \in DOMAIN _shortcuts : _shortcuts[i].keysId = keysId
  THEN [i \in DOMAIN _shortcuts |->
          IF _shortcuts[i].keysId = keysId THEN entry ELSE _shortcuts[i]]
  ELSE Append(_shortcuts, entry)

\* the key codes an argument of addShortcut names; an entry records them as
\* `combo`, which the code does not store, to state what the entry is for
codesOf(keyCodes) == {k.value : k \in Range(toList(keyCodes))}

addShortcut(callback, keyCodes, id) ==
  LET keys == comboKeys(keyCodes)
      keysId == comboKeysId(keys, id)
  IN IF hasShortcut(keysId)
     THEN /\ last' = [op |-> "addShortcut", callback |-> callback,
                      keyCodes |-> keyCodes, id |-> id, threw |-> TRUE,
                      takenBy |-> idOrCallback(shortcutAt(keysId).id,
                                               shortcutAt(keysId).callback)]
          /\ UNCHANGED <<pointerVars, hostVars, isMacLike, _shortcuts, pressed, pressedKeyCode, held>>
     ELSE /\ Len(_shortcuts) < MaxShortcuts
          /\ _shortcuts' = setShortcut(keysId,
                                       [keysId |-> keysId, callback |-> callback,
                                        keys |-> keys, id |-> id,
                                        combo |-> codesOf(keyCodes)])
          /\ last' = [op |-> "addShortcut", callback |-> callback,
                      keyCodes |-> keyCodes, id |-> id, threw |-> FALSE,
                      returned |-> callback]
          /\ UNCHANGED <<pointerVars, hostVars, isMacLike, pressed, pressedKeyCode, held>>

---------------------------------------------------------------------------
(* Keyboard: removeShortcut *)

\* the entries a `for in` loop over this._shortcuts leaves when it deletes
\* the matching ones
deleteEntries(entries, matching) ==
  LET Kept(entry) == entry \notin matching
  IN SelectSeq(entries, Kept)

removeShortcutByCallback(callback) ==
  LET matching == {entry \in Range(_shortcuts) : callback = entry.callback}
  IN _shortcuts' = deleteEntries(_shortcuts, matching)

\* the key codes joined in the order given
removeShortcutByKeyCodesAsGiven(keyCodes) ==
  LET keys == ArrayJoin(keyCodes)
      matching == {entry \in Range(_shortcuts) : keys = entry.keys}
  IN _shortcuts' = deleteEntries(_shortcuts, matching)

removeShortcutByKeyCodes(keyCodes) ==
  LET keys == ArrayJoin(ArraySort(keyCodes))
      matching == {entry \in Range(_shortcuts) : keys = entry.keys}
  IN _shortcuts' = deleteEntries(_shortcuts, matching)

\* the loop left at the first entry deleted
removeShortcutByIdFirstOnly(id) ==
  LET found == {i \in DOMAIN _shortcuts : id = _shortcuts[i].id}
      first == CHOOSE i \in found : \A j \in found : i <= j
  IN _shortcuts' = IF found = {} THEN _shortcuts
                   ELSE SubSeq(_shortcuts, 1, first - 1) \o
                        SubSeq(_shortcuts, first + 1, Len(_shortcuts))

removeShortcutById(id) ==
  LET matching == {entry \in Range(_shortcuts) : id = entry.id}
  IN _shortcuts' = deleteEntries(_shortcuts, matching)

\* the method chosen by the type of the argument
removeShortcutBy(callbackOrKeyCodesOrId) ==
  IF isFunction(callbackOrKeyCodesOrId)
  THEN removeShortcutByCallback(callbackOrKeyCodesOrId)
  ELSE IF isList(callbackOrKeyCodesOrId)
  THEN removeShortcutByKeyCodes(callbackOrKeyCodesOrId.items)
  ELSE removeShortcutById(callbackOrKeyCodesOrId)

removeShortcut(callbackOrKeyCodesOrId) ==
  /\ removeShortcutBy(callbackOrKeyCodesOrId)
  /\ last' = [op |-> "removeShortcut", selector |-> callbackOrKeyCodesOrId,
              threw |-> FALSE, removed |-> Len(_shortcuts) - Len(_shortcuts')]
  /\ UNCHANGED <<pointerVars, hostVars, isMacLike, pressed, pressedKeyCode, held>>

---------------------------------------------------------------------------
(* Keyboard: _onPress and _onRelease *)

\* this.ignoreEventsFrom[event.target.localName]
ignoresEvent(event) == event.target \in ignoreEventsFrom

RECURSIVE ascending(_)
ascending(codes) ==
  IF codes = {} THEN <<>>
  ELSE LET least == CHOOSE c \in codes : \A d \in codes : c <= d
       IN <<least>> \o ascending(codes \ {least})

\* Object.keys(this.pressedKeyCode): the array indices in ascending order,
\* then the other property names (here -17 alone) in insertion order
objectKeys(codes) ==
  LET indices == ascending({c \in codes : c >= 0})
      others == ascending({c \in codes : c < 0})
      names == indices \o others
  IN [i \in DOMAIN names |-> Str(NumberToString(names[i]))]

\* Object.keys(this.pressedKeyCode).sort().join()
pressedKeys(codes) == ArrayJoin(ArraySort(objectKeys(codes)))

\* keyCodes.includes(keys): a shortcut fires when its keys are among the pressed
shortcutMatchesWithin(entry, keyCodes) ==
  \E i \in 1..(Len(keyCodes) + 1) :
     /\ i + Len(entry.keys) - 1 <= Len(keyCodes)
     /\ SubSeq(keyCodes, i, i + Len(entry.keys) - 1) = entry.keys

\* keys === keyCodes
shortcutMatches(entry, keyCodes) == entry.keys = keyCodes

\* the callbacks pushed by the loop over this._shortcuts
matchedCallbacks(keyCodes) ==
  LET Matches(entry) == shortcutMatches(entry, keyCodes)
      matched == SelectSeq(_shortcuts, Matches)
  IN [i \in DOMAIN matched |-> matched[i].callback]

\* the threshold itself taken for slow
tookAtLeastInstant(elapsed) == elapsed >= TIME_DURATION_INSTANT

\* Date.now() - now > TIME_DURATION_INSTANT
tookLongerThanInstant(elapsed) == elapsed > TIME_DURATION_INSTANT

\* what a handler does to the registry while it is called: nothing, or one
\* call of removeShortcut or of addShortcut that returns
noCall == [op |-> "none"]

\* the registry after the handler's call
shortcutsAfter(call) ==
  IF call.op = "removeShortcut" THEN removeShortcutBy(call.selector)
  ELSE IF call.op = "addShortcut"
  THEN LET keys == comboKeys(call.keyCodes)
           keysId == comboKeysId(keys, call.id)
       IN /\ ~hasShortcut(keysId)
          /\ Len(_shortcuts) < MaxShortcuts
          /\ _shortcuts' = setShortcut(keysId,
                                       [keysId |-> keysId,
                                        callback |-> call.callback,
                                        keys |-> keys, id |-> call.id,
                                        combo |-> codesOf(call.keyCodes)])
  ELSE UNCHANGED _shortcuts

\* the callbacks of the entries that are registered when their turn comes:
\* those called up to the handler that changes the registry, then the
\* matching entries of the registry it leaves
callbacksOfLoop(callbacks, by, keyCodes, after) ==
  IF by \in DOMAIN callbacks
  THEN LET Matches(entry) == shortcutMatches(entry, keyCodes)
           matched == SelectSeq(after, Matches)
           Later(callback) ==
             \E i \in DOMAIN matched : matched[i].callback = callback
       IN SubSeq(callbacks, 1, by) \o
          SelectSeq(SubSeq(callbacks, by + 1, Len(callbacks)), Later)
  ELSE callbacks

\* callbacks.forEach(callback => callback.call(this, event)): the array the
\* loop over this._shortcuts has filled before the first callback is called
callbacksForEach(callbacks, by, keyCodes, after) == callbacks

\* `elapsed` is what Date.now() - now comes to when callbacks were called;
\* the callback called as number `by` makes `call` on the registry
_onPressWith(event, elapsed, by, call) ==
  IF ignoresEvent(event)
  THEN /\ last' = [op |-> "_onPress", event |-> event, ignored |-> TRUE,
                   was |-> pressedKeyCode, calls |-> <<>>, timed |-> <<>>,
                   threw |-> FALSE, during |-> noCall]
       /\ UNCHANGED <<pointerVars, hostVars, isMacLike, _shortcuts, pressed, pressedKeyCode, held>>
  ELSE LET keyCode == ctrlKeyCodeOr(event.keyCode)
           nowPressed == pressed \cup {keyName(keyCode)}
           nowPressedKeyCode == pressedKeyCode \cup {keyCode}
           keyCodes == pressedKeys(nowPressedKeyCode)
           matched == matchedCallbacks(keyCodes)
           made == by \in DOMAIN matched
           callbacks == callbacksForEach(matched, by, keyCodes, _shortcuts')
           cleared == callbacks # <<>> /\ tookLongerThanInstant(elapsed)
       IN /\ shortcutsAfter(IF made THEN call ELSE noCall)
          /\ Cardinality(held \cup {event.keyCode}) <= MaxHeld
          /\ held' = held \cup {event.keyCode}
          /\ pressed' = IF cleared THEN {} ELSE nowPressed
          /\ pressedKeyCode' = IF cleared THEN {} ELSE nowPressedKeyCode
          /\ last' = [op |-> "_onPress", event |-> event, ignored |-> FALSE,
                      was |-> pressedKeyCode,
                      calls |-> [i \in DOMAIN callbacks |->
                                   [callback |-> callbacks[i],
                                    this |-> "keyboard", event |-> event]],
                      timed |-> IF callbacks # <<>> THEN <<elapsed>> ELSE <<>>,
                      threw |-> FALSE,
                      during |-> IF made THEN call @@ [by |-> by]
                                 ELSE noCall]
          /\ UNCHANGED <<pointerVars, hostVars, isMacLike>>

\* a key-down whose handlers leave the registry alone
_onPress(event, elapsed) == _onPressWith(event, elapsed, 0, noCall)

\* Meta clearing the keys on every platform
releaseOfMetaClearsAll(event) == event.key = "Meta"

\* the released key deleted under the code the event carries
releasedKeyCodeRaw(event) == event.keyCode

\* const keyCode = this._ctrlKeyCode[event.keyCode] || event.keyCode, on key-up
releasedKeyCode(event) == ctrlKeyCodeOr(event.keyCode)

\* event.key === 'Meta' && isMacLike
releaseClearsAll(event) == event.key = "Meta" /\ isMacLike

_onRelease(event) ==
  IF ignoresEvent(event)
  THEN /\ last' = [op |-> "_onRelease", event |-> event, ignored |-> TRUE,
                   was |-> pressedKeyCode, calls |-> <<>>, timed |-> <<>>,
                   threw |-> FALSE]
       /\ UNCHANGED <<pointerVars, hostVars, isMacLike, _shortcuts, pressed, pressedKeyCode, held>>
  ELSE /\ IF releaseClearsAll(event)
          THEN /\ pressed' = {}
               /\ pressedKeyCode' = {}
          ELSE LET keyCode == releasedKeyCode(event)
               IN /\ pressed' = pressed \ {keyName(keyCode)}
                  /\ pressedKeyCode' = pressedKeyCode \ {keyCode}
       /\ held' = held \ {event.keyCode}
       /\ last' = [op |-> "_onRelease", event |-> event, ignored |-> FALSE,
                   was |-> pressedKeyCode, calls |-> <<>>, timed |-> <<>>,
                   threw |-> FALSE]
       /\ UNCHANGED <<pointerVars, hostVars, isMacLike, _shortcuts>>

---------------------------------------------------------------------------
(* Subscription of the keyboard and the pointer to the host's events *)

EventTypes == {"keydown", "keyup", "pointerdown", "pointerup"}

noListeners == [type \in EventTypes |-> <<>>]

\* the listener added once more when it is subscribed already
subscribeToAgain(subscribed, type, listener) ==
  [subscribed EXCEPT ![type] = Append(@, listener)]

\* utility.js subscribeTo(eventName, callback): a callback that is subscribed
\* to the event already is not added again
subscribeTo(subscribed, type, listener) ==
  [subscribed EXCEPT
     ![type] = IF listener \in Range(@) THEN @ ELSE Append(@, listener)]

\* utility.js unsubscribeFrom(eventName, callback)
unsubscribeFrom(subscribed, type, listener) ==
  LET Other(l) == l # listener
  IN [subscribed EXCEPT ![type] = SelectSeq(@, Other)]

\* the listeners after Keyboard.subscribe / Keyboard.unsubscribe
keyboardSubscribed(subscribed) ==
  subscribeTo(subscribeTo(subscribed, "keydown", "_onPress"),
              "keyup", "_onRelease")
keyboardUnsubscribed(subscribed) ==
  unsubscribeFrom(unsubscribeFrom(subscribed, "keydown", "_onPress"),
                  "keyup", "_onRelease")

\* the listeners after Pointer.subscribe / Pointer.unsubscribe
pointerSubscribed(subscribed) ==
  subscribeTo(subscribeTo(subscribed, "pointerdown", "_onPointerDown"),
              "pointerup", "_onPointerUp")
pointerUnsubscribed(subscribed) ==
  unsubscribeFrom(unsubscribeFrom(subscribed, "pointerdown", "_onPointerDown"),
                  "pointerup", "_onPointerUp")

\* the host calls the listeners of an event's type
delivers(type) == listeners[type] # <<>>

keyboardSubscribe ==
  /\ listeners' = keyboardSubscribed(listeners)
  /\ last' = [op |-> "keyboard.subscribe", was |-> listeners]
  /\ UNCHANGED <<keyboardVars, pointerVars, downButton>>

keyboardUnsubscribe ==
  /\ listeners' = keyboardUnsubscribed(listeners)
  /\ last' = [op |-> "keyboard.unsubscribe", was |-> listeners]
  /\ UNCHANGED <<keyboardVars, pointerVars, downButton>>

pointerSubscribe ==
  /\ listeners' = pointerSubscribed(listeners)
  /\ last' = [op |-> "pointer.subscribe", was |-> listeners]
  /\ UNCHANGED <<keyboardVars, pointerVars, downButton>>

pointerUnsubscribe ==
  /\ listeners' = pointerUnsubscribed(listeners)
  /\ last' = [op |-> "pointer.unsubscribe", was |-> listeners]
  /\ UNCHANGED <<keyboardVars, pointerVars, downButton>>

---------------------------------------------------------------------------
(* Inputs *)

Callbacks == {Fn("h1"), Fn("h2")}
OwnerIds == {undefined, Str(<<"A">>), Str(<<"B">>)}
\* Tab alone, and Tab with p in both orders: "80,9" is their sorted order
KeyCodeLists ==
  {<<Num(KEY_Tab)>>, <<Num(KEY_Tab), Num(KEY_p)>>, <<Num(KEY_p), Num(KEY_Tab)>>}
KeyCodesArgs == {Num(KEY_Tab)} \cup {List(l) : l \in KeyCodeLists}

Init ==
  /\ isMacLike \in BOOLEAN
  /\ _shortcuts = <<>>
  /\ pressed = {}
  /\ pressedKeyCode = {}
  /\ held = {}
  /\ last = [op |-> "constructor"]
  /\ _dragNodes = <<>>
  /\ pointerDownEvent = undefined
  /\ pointerMoveCount = undefined
  /\ subscribedNode = undefined
  /\ hadDrag = undefined
  /\ moveSubscribed = FALSE
  /\ gesture = noGesture
  /\ downButton = {}
  /\ listeners = pointerSubscribed(keyboardSubscribed(noListeners))

\* the platform flag is read by the keyboard alone
InitPointer == Init /\ ~isMacLike

Selectors == Callbacks \cup {List(l) : l \in KeyCodeLists} \cup OwnerIds

AddAnyShortcut ==
  \E callback \in Callbacks, keyCodes \in KeyCodesArgs, id \in OwnerIds :
     addShortcut(callback, keyCodes, id)

RemoveAnyShortcut ==
  \E selector \in Selectors : removeShortcut(selector)

NextRegistry == AddAnyShortcut \/ RemoveAnyShortcut

\* The registry alone: every call of addShortcut and removeShortcut
SpecRegistry == Init /\ [][NextRegistry]_vars


\* The key events the host delivers: KeyboardEvent.keyCode with the
\* KeyboardEvent.key of that key, and the localName of the event's target.
\* 112 (F1) is a key code the KEY table has no name for.
EventKey ==
  (KEY_Control :> "Control") @@ (KEY_p :> "p") @@
  (KEY_MetaLeft :> "Meta") @@ (112 :> "F1")
Targets == {"div", "input", "textarea"}
KeyEvents ==
  {[keyCode |-> k, key |-> EventKey[k], target |-> t] :
     k \in DOMAIN EventKey, t \in Targets}
Elapsed == {TIME_DURATION_INSTANT, TIME_DURATION_INSTANT + 1}

DispatchKeyCodesArgs == {Num(KEY_p), List(<<Num(KEY_p), Num(KEY_Ctrl)>>)}

\* one handler registered without ownerId, the other by owner "A"
DispatchOwners == {<<Fn("h1"), undefined>>, <<Fn("h2"), Str(<<"A">>)>>}

AddDispatchShortcut ==
  /\ Len(_shortcuts) < MaxDispatchShortcuts
  /\ \E owner \in DispatchOwners, keyCodes \in DispatchKeyCodesArgs :
        addShortcut(owner[1], keyCodes, owner[2])

KeyDown ==
  /\ delivers("keydown")
  /\ \E event \in KeyEvents, elapsed \in Elapsed : _onPress(event, elapsed)

KeyUp ==
  /\ delivers("keyup")
  /\ \E event \in KeyEvents : _onRelease(event)

NextKeys == AddDispatchShortcut \/ KeyDown \/ KeyUp

\* Key events delivered to a registry that shortcuts are added to
SpecKeys == Init /\ [][NextKeys]_vars

---------------------------------------------------------------------------
(* Claims about the registry, under SpecRegistry *)

Entries == Range(_shortcuts)

\* this step is a call of addShortcut / removeShortcut
AddStep == last'.op = "addShortcut"
RemoveStep == last'.op = "removeShortcut"

\* C1 as stated: at most one registered entry per distinct combo (the sorted,
\* joined key-code list), whatever ownerId each registration supplied.
C1_OneEntryPerCombo ==
  \A i, j \in DOMAIN _shortcuts :
     _shortcuts[i].keys = _shortcuts[j].keys => i = j

C1_OnePerComboAndOwner ==
  \A i, j \in DOMAIN _shortcuts :
     (/\ _shortcuts[i].keys = _shortcuts[j].keys
      /\ StringOf(_shortcuts[i].id) = StringOf(_shortcuts[j].id)) => i = j

C1_ConflictStep ==
  AddStep =>
    LET taken == {e \in Entries : /\ e.combo = codesOf(last'.keyCodes)
                                  /\ StringOf(e.id) = StringOf(last'.id)}
    IN taken # {} =>
         /\ last'.threw
         /\ _shortcuts' = _shortcuts
         /\ \E e \in taken : last'.takenBy \in {e.id, e.callback}

\* C1, amended: after any sequence of addShortcut/removeShortcut calls there is
\* at most one registered entry per distinct pair of combo and ownerId (as
\* rendered into the entry's key), and an addShortcut for a combo that is
\* already registered under the same ownerId throws the conflict error and
\* leaves the registry exactly as it was.
C1_UniquePerComboAndOwner ==
  [][C1_OnePerComboAndOwner' /\ C1_ConflictStep]_vars

\* C1 witness: a conflict was raised while the same combo is registered twice
\* under different owner ids.
C1_Witness ==
  /\ last.op = "addShortcut" /\ last.threw
  /\ \E i, j \in DOMAIN _shortcuts :
        /\ i # j
        /\ _shortcuts[i].keys = _shortcuts[j].keys
        /\ _shortcuts[i].combo = codesOf(last.keyCodes)
        /\ _shortcuts[i].id = last.id

\* C2: combo comparison is order-independent: when a combo was registered
\* without ownerId, addShortcut without ownerId for any ordering of the same
\* key codes throws the conflict error (naming the first handler) and changes
\* nothing, so the combo stays bound to the first handler only.
C2_OrderIndependentConflict ==
  [][(AddStep /\ last'.id = undefined) =>
       \A e \in Entries :
          (e.id = undefined /\ e.combo = codesOf(last'.keyCodes)) =>
             /\ last'.threw
             /\ last'.takenBy = e.callback
             /\ _shortcuts' = _shortcuts
             /\ \A f \in Range(_shortcuts') :
                   (f.id = undefined /\ f.combo = e.combo) => f = e]_vars

\* C2 witness: a two-key list given in an order that is not its sorted order
\* and by another handler was refused, the combo being bound without ownerId.
C2_Witness ==
  /\ last.op = "addShortcut" /\ last.threw /\ last.id = undefined
  /\ last.keyCodes.type = "list" /\ Len(last.keyCodes.items) = 2
  /\ ArrayJoin(last.keyCodes.items) # comboKeys(last.keyCodes)
  /\ \E e \in Entries : /\ e.id = undefined
                        /\ e.combo = codesOf(last.keyCodes)
                        /\ e.callback # last.callback

\* C9: removeShortcut by ownerId removes every entry whose ownerId equals the
\* given id and leaves every other entry as it was and in its place; when no
\* entry has that id the registry is unchanged; no error is raised.
C9_RemoveByOwnerId ==
  [][(RemoveStep /\ last'.selector.type = "string") =>
       LET id == last'.selector
           others == {i \in DOMAIN _shortcuts : _shortcuts[i].id # id}
       IN /\ ~last'.threw
          /\ Len(_shortcuts') = Cardinality(others)
          /\ \A i \in others :
                _shortcuts'[Cardinality({j \in others : j <= i})] = _shortcuts[i]
          /\ (others = DOMAIN _shortcuts => _shortcuts' = _shortcuts)]_vars

\* C9 witness: two entries shared the id and were removed, another entry stays.
C9_Witness ==
  /\ last.op = "removeShortcut" /\ last.selector.type = "string"
  /\ last.removed = 2
  /\ Len(_shortcuts) = 1

\* C10: addShortcut returns the handler; removeShortcut(handler) removes
\* exactly the entries bound to that handler; removeShortcut(list of key codes)
\* removes exactly the entries of that combo, for every ordering of the list.
C10_RemoveByHandlerOrKeyCodes ==
  [][/\ (AddStep /\ ~last'.threw) => last'.returned = last'.callback
     /\ (RemoveStep /\ last'.selector.type = "function") =>
           /\ Range(_shortcuts') = {e \in Entries : e.callback # last'.selector}
           /\ Len(_shortcuts') = Cardinality(Range(_shortcuts'))
     /\ (RemoveStep /\ last'.selector.type = "list") =>
           /\ Range(_shortcuts') =
                {e \in Entries : e.combo # codesOf(last'.selector)}
           /\ Len(_shortcuts') = Cardinality(Range(_shortcuts'))]_vars

\* C10 witness: a two-key list given out of its sorted order removed the two
\* entries of its combo and left an entry of another combo.
C10_Witness ==
  /\ last.op = "removeShortcut" /\ last.selector.type = "list"
  /\ Len(last.selector.items) = 2
  /\ ArrayJoin(last.selector.items) # comboKeys(last.selector)
  /\ last.removed = 2
  /\ Len(_shortcuts) = 1

---------------------------------------------------------------------------
(* Claims about key events, under SpecKeys.  A key-down or key-up here is  *)
(* one the keyboard processes: its target is not in ignoreEventsFrom (C7   *)
(* is about the others).                                                   *)

KeyDownDone == last.op = "_onPress" /\ ~last.ignored
KeyUpDone == last.op = "_onRelease" /\ ~last.ignored
\* the normalized code of the last event's key and its name in `pressed`
lastKeyCode == ctrlKeyCodeOr(last.event.keyCode)
lastKeyName == keyName(lastKeyCode)
\* the last key-down called handlers that took more than 200 ms
SlowHandlers == last.calls # <<>> /\ last.timed[1] > 200

\* C3 as stated: the pressed set contains a key after its key-down, not after
\* its key-up, and is empty once every pressed key has received its key-up.
C3_PressedAfterEveryKeyDown ==
  /\ KeyDownDone => (lastKeyCode \in pressedKeyCode /\ lastKeyName \in pressed)
  /\ KeyUpDone => (lastKeyCode \notin pressedKeyCode /\ lastKeyName \notin pressed)
  /\ held = {} => (pressedKeyCode = {} /\ pressed = {})

\* C3, amended: the pressed set (pressed and pressedKeyCode) contains a key
\* after its key-down unless that key-down matched handlers that ran for more
\* than 200 ms, in which case it is empty; it no longer contains the key after
\* its key-up; and once every pressed key has received its key-up, in any
\* order, the pressed set is empty.
C3_PressedTracking ==
  /\ KeyDownDone =>
       IF SlowHandlers THEN pressedKeyCode = {} /\ pressed = {}
       ELSE lastKeyCode \in pressedKeyCode /\ lastKeyName \in pressed
  /\ KeyUpDone => (lastKeyCode \notin pressedKeyCode /\ lastKeyName \notin pressed)
  /\ held = {} => (pressedKeyCode = {} /\ pressed = {})

\* C3 witness: the key-up of the last key still recorded as pressed was
\* processed and no key is held any more.
C3_Witness ==
  /\ KeyUpDone /\ held = {}
  /\ last.was = {lastKeyCode}
  /\ pressedKeyCode = {} /\ pressed = {}

\* C4: on every key-down, repeated ones included, the handlers called are
\* exactly those of the entries whose combo equals the whole pressed set with
\* the key added, each with the triggering event; nothing is raised.
C4_ExactMatchDispatch ==
  KeyDownDone =>
    LET nowPressed == last.was \cup {lastKeyCode}
    IN /\ {call.callback : call \in Range(last.calls)} =
            {e.callback : e \in {f \in Entries : f.combo = nowPressed}}
       /\ \A call \in Range(last.calls) : call.event = last.event
       /\ ~last.threw

\* C4 witness: a repeated key-down called the handler of the combo that equals
\* the pressed set and not the handler of a combo that is a strict subset.
C4_Witness ==
  /\ KeyDownDone /\ last.calls # <<>>
  /\ lastKeyCode \in last.was
  /\ \E e \in Entries :
        /\ e.combo # last.was /\ e.combo \subseteq last.was
        /\ \A call \in Range(last.calls) : call.callback # e.callback

\* C5: when a key-down matched handlers, pressed and pressedKeyCode are both
\* emptied if and only if the handler calls took more than 200 ms; otherwise,
\* and when no handler matched, the pressed set is the one before the key-down
\* with the key added.
C5_SlowHandlerRecovery ==
  [][(last'.op = "_onPress" /\ ~last'.ignored) =>
       LET keyCode == ctrlKeyCodeOr(last'.event.keyCode)
           added == /\ pressedKeyCode' = pressedKeyCode \cup {keyCode}
                    /\ pressed' = pressed \cup {keyName(keyCode)}
           emptied == pressedKeyCode' = {} /\ pressed' = {}
       IN IF last'.calls # <<>>
          THEN /\ emptied <=> last'.timed[1] > 200
               /\ last'.timed[1] <= 200 => added
          ELSE added]_vars

\* C5 witness: two handlers matched a key-down, took 201 ms and left the
\* pressed set empty.
C5_Witness ==
  /\ KeyDownDone /\ Len(last.calls) = 2 /\ last.timed = <<201>>
  /\ last.was # {}
  /\ pressedKeyCode = {} /\ pressed = {}

\* C6: on a Mac-like platform a key-up whose key is Meta empties pressed and
\* pressedKeyCode; every other key-up removes the released key's normalized
\* code (and its name) and nothing else.
C6_MetaReleaseClearsAll ==
  [][(last'.op = "_onRelease" /\ ~last'.ignored) =>
       IF isMacLike /\ last'.event.key = "Meta"
       THEN pressedKeyCode' = {} /\ pressed' = {}
       ELSE LET keyCode == ctrlKeyCodeOr(last'.event.keyCode)
            IN /\ pressedKeyCode' = pressedKeyCode \ {keyCode}
               /\ pressed' = pressed \ {keyName(keyCode)}]_vars

\* C6 witness: on a Mac-like platform the key-up of Meta emptied a pressed set
\* that held Ctrl and another key.
C6_Witness ==
  /\ isMacLike /\ KeyUpDone /\ last.event.key = "Meta"
  /\ Cardinality(last.was) = 2 /\ KEY_Ctrl \in last.was
  /\ pressedKeyCode = {} /\ pressed = {}

\* C7: a key-down or key-up whose target is an input or a textarea changes
\* neither pressed nor pressedKeyCode and calls no handler.
C7_IgnoredTargets ==
  [][(/\ last'.op \in {"_onPress", "_onRelease"}
      /\ last'.event.target \in {"input", "textarea"}) =>
        /\ pressed' = pressed
        /\ pressedKeyCode' = pressedKeyCode
        /\ last'.calls = <<>>]_vars

\* C7 witness: a key-down from a textarea was left alone although a shortcut
\* is registered for the pressed keys with that key added.
C7_Witness ==
  /\ last.op = "_onPress" /\ last.ignored /\ last.event.target = "textarea"
  /\ lastKeyCode \notin pressedKeyCode
  /\ \E e \in Entries : e.combo = pressedKeyCode \cup {lastKeyCode}

\* the canonical code C8 gives for a raw key code
C8_Canonical(keyCode) ==
  IF isMacLike
  THEN IF keyCode \in {91, 93} THEN -17 ELSE keyCode
  ELSE IF keyCode = 17 THEN -17 ELSE keyCode

\* C8: key normalization maps MetaLeft (91) and MetaRight (93) to Ctrl (-17)
\* on a Mac-like platform and Control (17) to Ctrl (-17) on the others, every
\* other code to itself, and is what key-down adds and key-up removes.
C8_Normalization ==
  /\ \A keyCode \in 0..255 : ctrlKeyCodeOr(keyCode) = C8_Canonical(keyCode)
  /\ (KeyDownDone /\ ~SlowHandlers) =>
        pressedKeyCode = last.was \cup {C8_Canonical(last.event.keyCode)}
  /\ (KeyUpDone /\ ~(isMacLike /\ last.event.key = "Meta")) =>
        pressedKeyCode = last.was \ {C8_Canonical(last.event.keyCode)}

\* C8 witness: off the Mac, Control went down as Ctrl and its key-up removed
\* Ctrl again, another key staying pressed.
C8_Witness ==
  /\ ~isMacLike /\ KeyUpDone /\ last.event.keyCode = 17
  /\ -17 \in last.was /\ -17 \notin pressedKeyCode
  /\ pressedKeyCode # {}

---------------------------------------------------------------------------
(* Pointer: values, the document and the drag registry (src/pointer.js) *)

null == [type |-> "null"]
true == [type |-> "boolean", value |-> TRUE]
Element(name) == [type |-> "element", name |-> name]

\* a value in a condition: undefined, null, 0 and '' are the falsy ones here
truthy(v) ==
  /\ v.type \notin {"undefined", "null"}
  /\ v.type = "number" => v.value # 0
  /\ v.type = "string" => v.value # <<>>
  /\ v.type = "boolean" => v.value

\* typeof v
typeOf(v) ==
  IF v.type \in {"element", "null", "list"} THEN "object" ELSE v.type

\* the document the events come from: html > body > E1 > E2
parentElement ==
  ("html" :> null) @@ ("body" :> Element("html")) @@
  ("E1" :> Element("body")) @@ ("E2" :> Element("E1"))
localName ==
  ("html" :> "html") @@ ("body" :> "body") @@ ("E1" :> "div") @@ ("E2" :> "div")

\* Pointer.ignoreEventsFrom
pointerIgnoreEventsFrom == {"html", "body"}

\* this._dragNodes.get(node): the entry of the element, or undefined.
\* _dragNodes is a function from the names of the elements that have an
\* entry; the order of a Map's entries is nowhere observed by the code.
dragNodesGet(node) ==
  IF node.type = "element" /\ node.name \in DOMAIN _dragNodes
  THEN _dragNodes[node.name] ELSE undefined

\* id || onDrag || onDragStart || onDragEnd
firstTruthy(values) ==
  IF \E i \in DOMAIN values : truthy(values[i])
  THEN values[CHOOSE i \in DOMAIN values :
                /\ truthy(values[i])
                /\ \A j \in 1..(i - 1) : ~truthy(values[j])]
  ELSE values[Len(values)]

\* the gesture whose element lost or changed its entry is no longer intact;
\* a gesture that is over is forgotten when the registry is called
gestureAfter(dragNodes) ==
  IF ~truthy(subscribedNode) THEN noGesture
  ELSE IF \/ gesture.node \notin DOMAIN dragNodes
          \/ gesture.node \notin DOMAIN _dragNodes
          \/ dragNodes[gesture.node] # _dragNodes[gesture.node]
  THEN [gesture EXCEPT !.intact = FALSE, !.events = <<>>, !.calls = <<>>]
  ELSE gesture

\* the duplicate check made on the handlers instead of the element
hasDragOfHandlers(handlers, node) ==
  /\ node.name \in DOMAIN _dragNodes
  /\ _dragNodes[node.name].onDrag = handlers.onDrag

\* if (this._dragNodes.get(node)): an entry is an object, which is truthy
hasDrag(handlers, node) == dragNodesGet(node) # undefined

addDragBehavior(handlers, node, id) ==
  IF hasDrag(handlers, node)
  THEN LET entry == dragNodesGet(node)
       IN /\ last' = [op |-> "addDragBehavior", handlers |-> handlers,
                       node |-> node, id |-> id, threw |-> TRUE,
                       takenBy |-> firstTruthy(<<entry.id, entry.onDrag,
                                                 entry.onDragStart,
                                                 entry.onDragEnd>>)]
          /\ UNCHANGED <<keyboardVars, pointerVars, hostVars>>
  ELSE /\ _dragNodes' =
            (node.name :> [id |-> id, onDrag |-> handlers.onDrag,
                           onDragStart |-> handlers.onDragStart,
                           onDragEnd |-> handlers.onDragEnd,
                           onDragDown |-> handlers.onDragDown,
                           onDragUp |-> handlers.onDragUp]) @@ _dragNodes
       /\ gesture' = gestureAfter(_dragNodes')
       /\ last' = [op |-> "addDragBehavior", handlers |-> handlers,
                    node |-> node, id |-> id, threw |-> FALSE,
                    returned |-> node]
       /\ UNCHANGED <<keyboardVars, pointerDownEvent, pointerMoveCount,
                      subscribedNode, hadDrag, moveSubscribed, hostVars>>

\* this._dragNodes.delete(node) for every element in `nodes`
dragNodesDelete(nodes) ==
  [name \in DOMAIN _dragNodes \ nodes |-> _dragNodes[name]]

\* only onDrag compared with the function
removeDragByOnDragOnly(callback) ==
  _dragNodes' = dragNodesDelete({name \in DOMAIN _dragNodes :
                                   callback = _dragNodes[name].onDrag})

\* onDragDown and onDragUp compared with the function as well
removeDragByAnyHandler(callback) ==
  _dragNodes' = dragNodesDelete({name \in DOMAIN _dragNodes :
                                   \/ callback = _dragNodes[name].onDrag
                                   \/ callback = _dragNodes[name].onDragStart
                                   \/ callback = _dragNodes[name].onDragEnd
                                   \/ callback = _dragNodes[name].onDragDown
                                   \/ callback = _dragNodes[name].onDragUp})

removeDragByCallback(callback) ==
  _dragNodes' = dragNodesDelete({name \in DOMAIN _dragNodes :
                                   \/ callback = _dragNodes[name].onDrag
                                   \/ callback = _dragNodes[name].onDragStart
                                   \/ callback = _dragNodes[name].onDragEnd})

removeDragByNode(node) ==
  _dragNodes' = dragNodesDelete(IF node.type = "element" THEN {node.name}
                                ELSE {})

removeDragById(id) ==
  _dragNodes' = dragNodesDelete({name \in DOMAIN _dragNodes :
                                   id = _dragNodes[name].id})

removeDragBehavior(callbackOrNodeOrId) ==
  /\ IF isFunction(callbackOrNodeOrId)
     THEN removeDragByCallback(callbackOrNodeOrId)
     ELSE IF typeOf(callbackOrNodeOrId) = "object"
     THEN removeDragByNode(callbackOrNodeOrId)
     ELSE removeDragById(callbackOrNodeOrId)
  /\ gesture' = gestureAfter(_dragNodes')
  /\ last' = [op |-> "removeDragBehavior", selector |-> callbackOrNodeOrId,
              threw |-> FALSE,
              removed |-> DOMAIN _dragNodes \ DOMAIN _dragNodes']
  /\ UNCHANGED <<keyboardVars, pointerDownEvent, pointerMoveCount,
                 subscribedNode, hadDrag, moveSubscribed, hostVars>>

---------------------------------------------------------------------------
(* Pointer: _onPointerDown, _onPointerMove and _onPointerUp *)

\* utility.js subscribeTo / unsubscribeFrom of _onPointerMove: subscribing
\* twice registers one listener, unsubscribing removes it
subscribeToMove == moveSubscribed' = TRUE
unsubscribeFromMove == moveSubscribed' = FALSE

\* one call of a handler: the entry it was read from, the property it was
\* read as, the function, its `this` and its argument
Call(node, role, callback, this, event) ==
  [node |-> node, role |-> role, callback |-> callback, this |-> this,
   event |-> event]

\* the calls made of `planned`, in order, when the handler read as `thrower`
\* throws: the calls up to and including the first call of that handler
RECURSIVE callsMade(_, _)
callsMade(planned, thrower) ==
  IF planned = <<>> THEN <<>>
  ELSE IF Head(planned).role = thrower THEN <<Head(planned)>>
  ELSE <<Head(planned)>> \o callsMade(Tail(planned), thrower)

\* whether a call of `planned` threw, and so everything after it was skipped
handlerThrew(planned, thrower) == \E i \in DOMAIN planned : planned[i].role = thrower

\* the walk up from the target examining every element, the top-most too
RECURSIVE findDragNodeToTheTop(_)
findDragNodeToTheTop(node) ==
  IF dragNodesGet(node) # undefined THEN node
  ELSE IF ~truthy(parentElement[node.name]) THEN undefined
  ELSE findDragNodeToTheTop(parentElement[node.name])

\* while (node.parentElement) { if (this._dragNodes.get(node)) ... break;
\* node = node.parentElement }: the element the loop breaks at, or undefined
RECURSIVE findDragNode(_)
findDragNode(node) ==
  IF ~truthy(parentElement[node.name]) THEN undefined
  ELSE IF dragNodesGet(node) # undefined THEN node
  ELSE findDragNode(parentElement[node.name])

\* the record of an event handler's run
Ran(op, event, calls, threw) ==
  [op |-> op, event |-> event, calls |-> calls, threw |-> threw]

\* the gesture with one more event and the calls made for it
gestureWith(kind, calls, threw) ==
  LET started == gesture.started \/ \E i \in DOMAIN calls :
                                       calls[i].role = "onDragStart"
  IN IF gesture.intact /\ threw = "none"
     THEN [gesture EXCEPT !.events = Append(@, kind),
                          !.calls = @ \o [i \in DOMAIN calls |-> calls[i].role],
                          !.started = started]
     ELSE [gesture EXCEPT !.intact = FALSE, !.started = started,
                          !.events = <<>>, !.calls = <<>>]

\* `thrower` is the handler property whose function throws when it is called
\* for this event ("none": every handler returns)
_onPointerDown(event, thrower) ==
  LET node == findDragNode(event.target)
  IN IF \/ event.button # KEY_LEFT_CLICK
        \/ localName[event.target.name] \in pointerIgnoreEventsFrom
        \/ node = undefined
     THEN /\ last' = Ran("_onPointerDown", event, <<>>, "none")
          /\ UNCHANGED <<keyboardVars, pointerVars>>
     ELSE LET handlers == dragNodesGet(node)
              planned == IF truthy(handlers.onDragDown)
                         THEN <<Call(node.name, "onDragDown",
                                     handlers.onDragDown, "pointer", event)>>
                         ELSE <<>>
          IN IF handlerThrew(planned, thrower)
             THEN /\ last' = Ran("_onPointerDown", event, planned, thrower)
                  /\ gesture' = gestureWith("down", planned, thrower)
                  /\ UNCHANGED <<keyboardVars, _dragNodes, pointerDownEvent,
                                 pointerMoveCount, subscribedNode, hadDrag,
                                 moveSubscribed>>
             ELSE /\ pointerDownEvent' = event
                  /\ pointerMoveCount' = Num(0)
                  /\ subscribeToMove
                  /\ subscribedNode' = node
                  /\ last' = Ran("_onPointerDown", event, planned, "none")
                  /\ gesture' = [node |-> node.name,
                                 fromIdle |-> ~truthy(subscribedNode),
                                 intact |-> TRUE, started |-> FALSE,
                                 events |-> <<"down">>,
                                 calls |-> [i \in DOMAIN planned |->
                                              planned[i].role]]
                  /\ UNCHANGED <<keyboardVars, _dragNodes, hadDrag>>

\* every move event taken as one that follows the first
isFirstMoveNever == FALSE

\* if (!this.pointerMoveCount)
isFirstMove == ~truthy(pointerMoveCount)

\* onDragStart called with the move event
dragStartEventIsMove(event) == event

\* onDragStart(this.pointerDownEvent)
dragStartEvent(event) == pointerDownEvent

\* hadDrag never found set
hadDragNever == FALSE

\* if (this.hadDrag)
hadDragSet == truthy(hadDrag)

\* the handler runs only while subscribed to 'pointermove'
_onPointerMove(event, thrower) ==
  /\ moveSubscribed
  /\ IF isFirstMove
     THEN /\ pointerMoveCount' = Num(1)
          /\ last' = Ran("_onPointerMove", event, <<>>, "none")
          /\ gesture' = gestureWith("move", <<>>, "none")
          /\ UNCHANGED <<keyboardVars, _dragNodes, pointerDownEvent,
                         subscribedNode, hadDrag, moveSubscribed>>
     ELSE IF dragNodesGet(subscribedNode) = undefined
     THEN \* destructuring undefined throws a TypeError
          /\ last' = Ran("_onPointerMove", event, <<>>, "TypeError")
          /\ gesture' = gestureWith("move", <<>>, "TypeError")
          /\ UNCHANGED <<keyboardVars, _dragNodes, pointerDownEvent,
                         pointerMoveCount, subscribedNode, hadDrag,
                         moveSubscribed>>
     ELSE LET entry == dragNodesGet(subscribedNode)
              name == subscribedNode.name
              start == IF truthy(pointerDownEvent) /\ truthy(entry.onDragStart)
                       THEN <<Call(name, "onDragStart", entry.onDragStart,
                                   "undefined", dragStartEvent(event))>>
                       ELSE <<>>
              drag == IF truthy(entry.onDrag)
                      THEN <<Call(name, "onDrag", entry.onDrag, "undefined",
                                  event)>>
                      ELSE <<>>
              planned == start \o drag
              calls == callsMade(planned, thrower)
              threw == IF handlerThrew(planned, thrower) THEN thrower
                       ELSE "none"
              started == truthy(pointerDownEvent) /\ ~handlerThrew(start, thrower)
          IN /\ pointerDownEvent' = IF started THEN null ELSE pointerDownEvent
             /\ hadDrag' = IF started THEN true ELSE hadDrag
             /\ last' = Ran("_onPointerMove", event, calls, threw)
             /\ gesture' = gestureWith("move", calls, threw)
             /\ UNCHANGED <<keyboardVars, _dragNodes, pointerMoveCount,
                            subscribedNode, moveSubscribed>>

_onPointerUp(event, thrower) ==
  IF ~truthy(subscribedNode)
  THEN /\ last' = Ran("_onPointerUp", event, <<>>, "none")
       /\ UNCHANGED <<keyboardVars, pointerVars>>
  ELSE IF dragNodesGet(subscribedNode) = undefined
  THEN \* destructuring undefined throws a TypeError
       /\ last' = Ran("_onPointerUp", event, <<>>, "TypeError")
       /\ gesture' = gestureWith("up", <<>>, "TypeError")
       /\ UNCHANGED <<keyboardVars, _dragNodes, pointerDownEvent,
                      pointerMoveCount, subscribedNode, hadDrag,
                      moveSubscribed>>
  ELSE LET entry == dragNodesGet(subscribedNode)
           name == subscribedNode.name
           end == IF hadDragSet /\ truthy(entry.onDragEnd)
                  THEN <<Call(name, "onDragEnd", entry.onDragEnd, "undefined",
                              event)>>
                  ELSE <<>>
           up == IF truthy(entry.onDragUp)
                 THEN <<Call(name, "onDragUp", entry.onDragUp, "pointer",
                             event)>>
                 ELSE <<>>
           planned == end \o up
           calls == callsMade(planned, thrower)
           threw == IF handlerThrew(planned, thrower) THEN thrower ELSE "none"
       IN /\ unsubscribeFromMove
          /\ subscribedNode' = null
          /\ hadDrag' = IF hadDragSet THEN null ELSE hadDrag
          /\ last' = Ran("_onPointerUp", event, calls, threw)
          /\ gesture' = gestureWith("up", calls, threw)
          /\ UNCHANGED <<keyboardVars, _dragNodes, pointerDownEvent,
                         pointerMoveCount>>

---------------------------------------------------------------------------
(* Inputs of the drag registry *)

\* the handlers a caller passes: a property left out reads as undefined
Handlers(onDrag, onDragStart, onDragEnd, onDragDown, onDragUp) ==
  [onDrag |-> onDrag, onDragStart |-> onDragStart, onDragEnd |-> onDragEnd,
   onDragDown |-> onDragDown, onDragUp |-> onDragUp]

AllHandlers == Handlers(Fn("h1"), Fn("h1"), Fn("h1"), Fn("h2"), Fn("h2"))
OnDragOnly == Handlers(Fn("h2"), undefined, undefined, undefined, undefined)
OnDragStartOnly == Handlers(undefined, Fn("h2"), undefined, undefined, undefined)
OnDragEndOnly == Handlers(undefined, undefined, Fn("h2"), undefined, undefined)
DragHandlers == {AllHandlers, OnDragOnly, OnDragStartOnly, OnDragEndOnly}

DragNodes == {Element("html"), Element("E1"), Element("E2")}
DragSelectors == Callbacks \cup DragNodes \cup {null} \cup OwnerIds

AddAnyDrag ==
  \E handlers \in DragHandlers, node \in DragNodes, id \in OwnerIds :
     addDragBehavior(handlers, node, id)

RemoveAnyDrag ==
  \E selector \in DragSelectors : removeDragBehavior(selector)

NextDragRegistry == AddAnyDrag \/ RemoveAnyDrag

\* The drag registry alone: every call of addDragBehavior and
\* removeDragBehavior
SpecDragRegistry == InitPointer /\ [][NextDragRegistry]_vars

---------------------------------------------------------------------------
(* Pointer events delivered to a registry that entries are added to and   *)
(* removed from                                                           *)

\* most move events delivered after one pointer-down
MaxMoves == 3

\* html and E1 registered with every handler, E2 with every handler or with
\* onDrag alone
GestureDrags ==
  {<<AllHandlers, Element("html")>>, <<AllHandlers, Element("E1")>>,
   <<AllHandlers, Element("E2")>>, <<OnDragOnly, Element("E2")>>}
HandlerRoles == {"onDragDown", "onDragStart", "onDrag", "onDragEnd", "onDragUp"}
Throwers == {"none"} \cup HandlerRoles

PointerEvent(type, button, target) ==
  [type |-> type, button |-> button, target |-> Element(target)]
PointerDownEvents ==
  {PointerEvent("pointerdown", KEY_LEFT_CLICK, target) :
     target \in {"E1", "E2", "body"}}
  \cup {PointerEvent("pointerdown", 2, "E2")}
PointerMoveEvents == {PointerEvent("pointermove", -1, "E2")}
PointerUpEvents ==
  {PointerEvent("pointerup", button, "E2") : button \in {KEY_LEFT_CLICK, 2}}

movesOf(events) == Len(SelectSeq(events, LAMBDA kind : kind = "move"))

AddGestureDrag ==
  \E drag \in GestureDrags : addDragBehavior(drag[1], drag[2], undefined)

RemoveGestureDrag ==
  \E node \in DragNodes : removeDragBehavior(node)

\* One pointer: a button goes down while none is down, and the pointer goes
\* up with the release of its last button, which, other buttons having been
\* pressed and released meanwhile, need not be the one that went down first.
PointerDown ==
  /\ downButton = {}
  /\ delivers("pointerdown")
  /\ UNCHANGED listeners
  /\ \E event \in PointerDownEvents, thrower \in Throwers :
        /\ downButton' = {event.button}
        /\ _onPointerDown(event, thrower)

PointerMove ==
  /\ movesOf(gesture.events) < MaxMoves
  /\ UNCHANGED hostVars
  /\ \E event \in PointerMoveEvents, thrower \in Throwers :
        _onPointerMove(event, thrower)

PointerUp ==
  /\ downButton # {}
  /\ delivers("pointerup")
  /\ UNCHANGED listeners
  /\ \E event \in PointerUpEvents, thrower \in Throwers :
        /\ downButton' = {}
        /\ _onPointerUp(event, thrower)

NextGesture ==
  AddGestureDrag \/ RemoveGestureDrag \/ PointerDown \/ PointerMove \/ PointerUp

SpecGesture == InitPointer /\ [][NextGesture]_vars

---------------------------------------------------------------------------
(* Claims about the drag registry, under SpecDragRegistry *)

AddDragStep == last'.op = "addDragBehavior"
RemoveDragStep == last'.op = "removeDragBehavior"

C19_RemoveDrag ==
  [][(RemoveDragStep /\ last'.selector.type \in {"function", "element", "string"}) =>
       LET selector == last'.selector
           Selected(name) ==
             LET entry == _dragNodes[name]
             IN CASE selector.type = "function" ->
                       selector \in {entry.onDrag, entry.onDragStart,
                                     entry.onDragEnd}
                  [] selector.type = "element" -> selector.name = name
                  [] selector.type = "string" -> entry.id = selector
           kept == {name \in DOMAIN _dragNodes : ~Selected(name)}
       IN /\ DOMAIN _dragNodes' = kept
          /\ \A name \in kept : _dragNodes'[name] = _dragNodes[name]
          /\ ~last'.threw]_vars

\* C19 witness: removal by a function removed the entry that has it as
\* onDragStart and the entry that has it as onDragEnd, and kept the entry
\* that has it as onDragDown and onDragUp only.
C19_Witness ==
  /\ last.op = "removeDragBehavior" /\ last.selector = Fn("h2")
  /\ Cardinality(last.removed) = 2
  /\ \E name \in DOMAIN _dragNodes :
        /\ _dragNodes[name].onDragDown = Fn("h2")
        /\ _dragNodes[name].onDragUp = Fn("h2")

---------------------------------------------------------------------------
(* Both registries: entries added to the two, and every removal *)

RemovalSelectors ==
  Selectors \cup {List(<<Num(KEY_p)>>), List(<<Num(KEY_Ctrl), Num(KEY_p)>>)}

RemoveShortcutOf ==
  \E selector \in RemovalSelectors : removeShortcut(selector)

NextRemoval ==
  AddDispatchShortcut \/ RemoveShortcutOf \/ AddGestureDrag \/ RemoveAnyDrag

SpecRemoval == InitPointer /\ [][NextRemoval]_vars

\* a selector that is the handler, the key-code list or the ownerId of a
\* shortcut entry
MatchesShortcut(selector) ==
  \E entry \in Range(_shortcuts) :
     CASE selector.type = "function" -> entry.callback = selector
       [] selector.type = "list" -> entry.combo = codesOf(selector)
       [] OTHER -> entry.id = selector

\* a selector that is the onDrag, onDragStart or onDragEnd handler, the
\* element or the ownerId of a drag entry
MatchesDrag(selector) ==
  \E name \in DOMAIN _dragNodes :
     CASE selector.type = "function" ->
            selector \in {_dragNodes[name].onDrag, _dragNodes[name].onDragStart,
                          _dragNodes[name].onDragEnd}
       [] selector.type = "element" -> selector.name = name
       [] selector.type = "null" -> FALSE
       [] OTHER -> _dragNodes[name].id = selector

\* C18: removeShortcut and removeDragBehavior raise no error, and called with
\* a handler, key-code list, element or ownerId that matches no registered
\* entry they leave the registry as it was, the empty registry too.
C18_RemovalNeverFails ==
  [][/\ RemoveStep =>
          /\ ~last'.threw
          /\ ~MatchesShortcut(last'.selector) => _shortcuts' = _shortcuts
     /\ RemoveDragStep =>
          /\ ~last'.threw
          /\ ~MatchesDrag(last'.selector) => _dragNodes' = _dragNodes]_vars

\* C18 witness: with entries in both registries, removeDragBehavior was called
\* with a function that no entry has as onDrag, onDragStart or onDragEnd, and
\* nothing was removed.
C18_Witness ==
  /\ last.op = "removeDragBehavior" /\ last.selector = Fn("h2")
  /\ last.removed = {}
  /\ _shortcuts # <<>>
  /\ \E name \in DOMAIN _dragNodes : _dragNodes[name].onDragUp = Fn("h2")

---------------------------------------------------------------------------
(* Claims about gestures, under SpecGesture.  A gesture starts at a         *)
(* pointer-down that finds an entry; it is intact while the entry of its    *)
(* element stays as it was and every handler called has returned.           *)

PointerDownStep == last'.op = "_onPointerDown"
PointerMoveStep == last'.op = "_onPointerMove"
PointerUpStep == last'.op = "_onPointerUp"

\* how many times the handler property `role` was called
callsOf(calls, role) == Len(SelectSeq(calls, LAMBDA called : called = role))

\* the handler properties called by the last event, in order
rolesOf(calls) == [i \in DOMAIN calls |-> calls[i].role]

\* the pointer-up of this step ends an intact gesture of a pointer-down and
\* n move events
EndsGestureOf(n) ==
  /\ PointerUpStep
  /\ truthy(subscribedNode)
  /\ gesture.intact /\ gesture'.intact
  /\ gesture.events = <<"down">> \o [i \in 1..n |-> "move"]

\* C12: from Idle, a primary-button pointer-down on a registered element, n >= 2
\* move events and a pointer-up call onDragDown once, onDragStart once, onDrag
\* n-1 times, onDragEnd once and onDragUp once (each handler the entry has).
C12_DragScenario ==
  [][\A n \in 2..(MaxMoves + 1) :
       (EndsGestureOf(n) /\ gesture.fromIdle) =>
          LET entry == _dragNodes[gesture.node]
              Expected(role, times) ==
                callsOf(gesture'.calls, role) =
                  IF truthy(entry[role]) THEN times ELSE 0
          IN /\ Expected("onDragDown", 1)
             /\ Expected("onDragStart", 1)
             /\ Expected("onDrag", n - 1)
             /\ Expected("onDragEnd", 1)
             /\ Expected("onDragUp", 1)]_vars

\* C12 witness: down, three moves and up on an element that has all five
\* handlers, from Idle.
C12_Witness ==
  /\ last.op = "_onPointerUp"
  /\ gesture.fromIdle /\ gesture.intact
  /\ gesture.events = <<"down", "move", "move", "move", "up">>
  /\ gesture.calls = <<"onDragDown", "onDragStart", "onDrag", "onDrag",
                       "onDragEnd", "onDragUp">>

\* C13 as stated: whenever a primary-button pointer-down on a registered
\* element is followed by a pointer-up with no move event in between,
\* onDragDown and onDragUp are each called once and onDragStart, onDrag and
\* onDragEnd are not called for that gesture.
C13_TapScenario ==
  [][EndsGestureOf(0) =>
       LET entry == _dragNodes[gesture.node]
       IN /\ callsOf(gesture'.calls, "onDragDown") =
               IF truthy(entry.onDragDown) THEN 1 ELSE 0
          /\ callsOf(gesture'.calls, "onDragUp") =
               IF truthy(entry.onDragUp) THEN 1 ELSE 0
          /\ callsOf(gesture'.calls, "onDragStart") = 0
          /\ callsOf(gesture'.calls, "onDrag") = 0
          /\ callsOf(gesture'.calls, "onDragEnd") = 0]_vars

\* C14: in a gesture the first move event after the pointer-down calls no
\* handler; the second calls onDragStart with the remembered pointer-down
\* event and then onDrag with the move event; every later one calls onDrag
\* only; so onDragStart comes before the first onDrag.
C14_ArmedMoves ==
  [][(PointerMoveStep /\ gesture.intact /\ gesture'.intact) =>
       LET entry == _dragNodes[gesture.node]
           nth == movesOf(gesture.events) + 1
           start == IF truthy(entry.onDragStart)
                    THEN <<Call(gesture.node, "onDragStart", entry.onDragStart,
                                "undefined", pointerDownEvent)>>
                    ELSE <<>>
           drag == IF truthy(entry.onDrag)
                   THEN <<Call(gesture.node, "onDrag", entry.onDrag,
                               "undefined", last'.event)>>
                   ELSE <<>>
       IN /\ nth = 1 => last'.calls = <<>>
          /\ nth = 2 => /\ last'.calls = start \o drag
                        /\ pointerDownEvent.type = "pointerdown"
          /\ nth > 2 => last'.calls = drag
          /\ \A i, j \in DOMAIN gesture'.calls :
                (gesture'.calls[i] = "onDragStart" /\ gesture'.calls[j] = "onDrag")
                   => i < j]_vars

\* C14 witness: the second move of a gesture called onDragStart with the
\* pointer-down event and then onDrag with the move event.
C14_Witness ==
  /\ last.op = "_onPointerMove" /\ gesture.intact
  /\ movesOf(gesture.events) = 2
  /\ rolesOf(last.calls) = <<"onDragStart", "onDrag">>
  /\ last.calls[1].event.type = "pointerdown"
  /\ last.calls[2].event = last.event

\* C15 as stated: a pointer-up while Armed or Dragging stops move listening
\* and returns the gesture to Idle; it calls onDragEnd exactly when the gesture
\* had at least two moves, and then onDragUp, each if the entry has it; a
\* pointer-up while Idle calls nothing and changes nothing.  (Handlers that
\* return.)
C15_PointerUp ==
  [][(PointerUpStep /\ last'.threw \notin HandlerRoles) =>
       IF truthy(subscribedNode)
       THEN /\ ~moveSubscribed'
            /\ ~truthy(subscribedNode')
            /\ gesture.intact =>
                 LET entry == _dragNodes[gesture.node]
                     end == IF /\ movesOf(gesture.events) >= 2
                               /\ truthy(entry.onDragEnd)
                            THEN <<"onDragEnd">> ELSE <<>>
                     up == IF truthy(entry.onDragUp) THEN <<"onDragUp">>
                           ELSE <<>>
                 IN rolesOf(last'.calls) = end \o up
       ELSE /\ last'.calls = <<>>
            /\ UNCHANGED pointerVars]_vars

\* C16 as stated: a primary-button pointer-down arms the gesture on the first
\* element with a drag entry in the chain target, parent, ... up to and
\* including the top-most ancestor, and calls only that entry's handlers; when
\* no element of the chain has an entry nothing changes, nothing is called and
\* no move listener is added.  (Targets the pointer does not ignore.)
C16_AncestorResolution ==
  [][(/\ PointerDownStep
      /\ last'.event.button = KEY_LEFT_CLICK
      /\ localName[last'.event.target.name] \notin pointerIgnoreEventsFrom
      /\ last'.threw = "none") =>
       LET found == findDragNodeToTheTop(last'.event.target)
       IN IF found # undefined
          THEN /\ subscribedNode' = found
               /\ moveSubscribed'
               /\ \A i \in DOMAIN last'.calls : last'.calls[i].node = found.name
          ELSE /\ last'.calls = <<>>
               /\ UNCHANGED pointerVars]_vars

\* C17 as stated: processing a key-down, key-up, pointer-down, pointer-move or
\* pointer-up event raises no error of the coordinator's own, in every state
\* of the registries and the gesture.
C17_NoErrorFromEvents ==
  /\ last.op \in {"_onPointerDown", "_onPointerMove", "_onPointerUp"} =>
        last.threw # "TypeError"
  /\ last.op \in {"_onPress", "_onRelease"} => ~last.threw

\* C20 as stated: a handler's exception leaves the event callback, and the
\* handler is not called again for the same transition on a later event:
\* onDragStart is called at most once in a gesture, even if it throws.
C20_NotRetried ==
  [][PointerMoveStep =>
       /\ \A i \in DOMAIN last'.calls :
             last'.calls[i].role = "onDragStart" => ~gesture.started
       /\ last'.threw \in HandlerRoles =>
             last'.calls[Len(last'.calls)].role = last'.threw]_vars

---------------------------------------------------------------------------
(* Shortcuts of several owners for one combo, under SpecOwners *)

\* the owners of the shortcuts of one combo, the key p: a handler registered
\* without id, and handlers registered under a number and under strings
SharedOwners ==
  {<<Fn("h1"), undefined>>, <<Fn("h2"), Num(1)>>,
   <<Fn("h1"), Str(<<"1">>)>>, <<Fn("h2"), Str(<<"A">>)>>}
SharedOwnerIds == {owner[2] : owner \in SharedOwners}

AddOwnedShortcut ==
  \E owner \in SharedOwners : addShortcut(owner[1], Num(KEY_p), owner[2])

RemoveOwnedShortcut ==
  \E id \in SharedOwnerIds : removeShortcut(id)

NextOwners == AddOwnedShortcut \/ RemoveOwnedShortcut \/ KeyDown \/ KeyUp

\* Key events delivered to a registry in which owners share combos
SpecOwners == Init /\ [][NextOwners]_vars

\* the handlers of the entries registered for the pressed set of the last
\* key-down, in registration order
handlersInOrder ==
  LET nowPressed == last.was \cup {lastKeyCode}
      Matching(entry) == entry.combo = nowPressed
      matching == SelectSeq(_shortcuts, Matching)
  IN [i \in DOMAIN matching |-> matching[i].callback]

\* C21: shortcuts that share a combo but carry distinct ownerIds are all
\* registered without conflict, addShortcut raising the conflict only when
\* an entry of the same combo and the same ownerId is registered; and a
\* key-down whose pressed set equals the combo calls the handler of every
\* such entry exactly once, in registration order.
C21_SharedCombo ==
  [][/\ (AddStep /\ last'.threw) =>
          \E e \in Entries : /\ e.combo = codesOf(last'.keyCodes)
                             /\ e.id = last'.id
     /\ KeyDownDone' =>
          [i \in DOMAIN last'.calls |-> last'.calls[i].callback] =
            handlersInOrder']_vars

---------------------------------------------------------------------------
(* Subscribing and unsubscribing, under SpecSubscription *)

\* the key p pressed and released on a div, its handlers returning at once
KeyDownOfP ==
  /\ delivers("keydown")
  /\ _onPress([keyCode |-> KEY_p, key |-> "p", target |-> "div"],
              TIME_DURATION_INSTANT)

KeyUpOfP ==
  /\ delivers("keyup")
  /\ _onRelease([keyCode |-> KEY_p, key |-> "p", target |-> "div"])

NextSubscription ==
  \/ keyboardSubscribe \/ keyboardUnsubscribe
  \/ pointerSubscribe \/ pointerUnsubscribe
  \/ AddDispatchShortcut \/ KeyDownOfP \/ KeyUpOfP

\* Both registries subscribed and unsubscribed in any order, between key events
SpecSubscription == Init /\ [][NextSubscription]_vars

\* the event types a registry subscribes to, each with its listener
KeyboardListeners == ("keydown" :> "_onPress") @@ ("keyup" :> "_onRelease")
PointerListeners ==
  ("pointerdown" :> "_onPointerDown") @@ ("pointerup" :> "_onPointerUp")

\* a call of subscribe leaves exactly one listener for each of the registry's
\* event types and the other types as they were
SubscribeStep(op, own) ==
  last'.op = op =>
    /\ \A type \in DOMAIN own : listeners'[type] = <<own[type]>>
    /\ \A type \in EventTypes \ DOMAIN own : listeners'[type] = listeners[type]

\* a call of unsubscribe leaves no listener for the registry's event types;
\* with none subscribed nothing changes
UnsubscribeStep(op, own) ==
  last'.op = op =>
    /\ \A type \in DOMAIN own : listeners'[type] = <<>>
    /\ \A type \in EventTypes \ DOMAIN own : listeners'[type] = listeners[type]
    /\ (\A type \in DOMAIN own : listeners[type] = <<>>) =>
         listeners' = listeners
    /\ UNCHANGED <<keyboardVars, pointerVars>>

\* C22: subscribe and unsubscribe are an idempotent pair for both registries:
\* however often subscribe is called there is exactly one listener per event
\* type, so a key event is handed to its handler once; unsubscribe removes
\* the listeners, and with no subscription active it changes nothing.
C22_IdempotentSubscription ==
  [][/\ SubscribeStep("keyboard.subscribe", KeyboardListeners)
     /\ SubscribeStep("pointer.subscribe", PointerListeners)
     /\ UnsubscribeStep("keyboard.unsubscribe", KeyboardListeners)
     /\ UnsubscribeStep("pointer.unsubscribe", PointerListeners)
     /\ last'.op = "_onPress" => listeners["keydown"] = <<"_onPress">>
     /\ last'.op = "_onRelease" => listeners["keyup"] = <<"_onRelease">>]_vars

\* C22 witness: the keyboard, subscribed already, was subscribed again, while
\* the pointer is unsubscribed, and the listeners are as they were.
C22_Witness ==
  /\ last.op = "keyboard.subscribe"
  /\ last.was["keydown"] = <<"_onPress">>
  /\ listeners = last.was
  /\ listeners["pointerdown"] = <<>>

---------------------------------------------------------------------------
(* Claims about the buttons of pointer events, under SpecGesture *)

\* the fields of the pointer that make up the state of the gesture
gestureState ==
  <<pointerDownEvent, pointerMoveCount, subscribedNode, hadDrag, moveSubscribed>>

\* C23 as stated: only the primary button drives the gesture: a pointer-down
\* of another button arms nothing and calls no handler; a gesture that is
\* Armed or Dragging returns to Idle only on a pointer-up of the primary
\* button, and a pointer-up of another button leaves the gesture state and
\* the move listener as they were and calls no handler.
C23_PrimaryButtonOnly ==
  [][/\ (PointerDownStep /\ last'.event.button # KEY_LEFT_CLICK) =>
          (last'.calls = <<>> /\ UNCHANGED gestureState)
     /\ (PointerUpStep /\ last'.event.button # KEY_LEFT_CLICK) =>
          (last'.calls = <<>> /\ UNCHANGED gestureState)
     /\ (truthy(subscribedNode) /\ ~truthy(subscribedNode')) =>
          (PointerUpStep /\ last'.event.button = KEY_LEFT_CLICK)]_vars


\* C24 as stated: when the entry of the armed element was removed while the
\* gesture was Armed or Dragging, the next pointer-up still ends the session:
\* the gesture is Idle, hadDrag is cleared and the move listener is
\* unsubscribed, so that a later pointer-down starts a fresh gesture.
C24_UpAfterRemoval ==
  [][(/\ PointerUpStep
      /\ truthy(subscribedNode)
      /\ dragNodesGet(subscribedNode) = undefined) =>
       /\ ~truthy(subscribedNode')
       /\ ~truthy(hadDrag')
       /\ ~moveSubscribed']_vars

---------------------------------------------------------------------------
(* Several pointers, under SpecPointers *)

\* a pointer goes down while another one is down (a second finger, a pen)
SecondPointerDown ==
  /\ downButton # {}
  /\ delivers("pointerdown")
  /\ UNCHANGED hostVars
  /\ \E event \in PointerDownEvents, thrower \in Throwers :
        _onPointerDown(event, thrower)

NextPointers ==
  AddGestureDrag \/ PointerDown \/ SecondPointerDown \/ PointerMove \/ PointerUp

\* Gestures in which a pointer-down may follow a pointer-down
SpecPointers == InitPointer /\ [][NextPointers]_vars

\* this step is a pointer-down that arms the gesture
ArmingStep ==
  /\ PointerDownStep
  /\ last'.threw = "none"
  /\ gesture'.events = <<"down">>

\* C25 as stated: a pointer-up calls onDragEnd only for the element armed by
\* the most recent pointer-down and only if at least two move events were
\* delivered since that pointer-down; hadDrag never carries over into a later
\* arming, a second pointer-down before the pointer-up of the first included.
C25_DragEndOfLastArming ==
  [][/\ (PointerUpStep /\ gesture.intact) =>
          \A i \in DOMAIN last'.calls :
             last'.calls[i].role = "onDragEnd" =>
               /\ last'.calls[i].node = gesture.node
               /\ movesOf(gesture.events) >= 2
     /\ ArmingStep => ~truthy(hadDrag')]_vars

---------------------------------------------------------------------------
(* Handlers that change the registry while they are called, under          *)
(* SpecDispatch                                                            *)

\* what a handler may call: removeShortcut by handler or by owner id, and
\* addShortcut of the other owner's shortcut
HandlerCalls ==
  {[op |-> "removeShortcut", selector |-> selector] :
     selector \in Callbacks \cup {Str(<<"A">>)}} \cup
  {[op |-> "addShortcut", callback |-> owner[1], keyCodes |-> Num(KEY_p),
    id |-> owner[2]] : owner \in DispatchOwners}

\* the keys p and Control, pressed on a div
DispatchKeyEvents ==
  {event \in KeyEvents :
     event.target = "div" /\ event.keyCode \in {KEY_p, KEY_Control}}

KeyDownCalling ==
  /\ delivers("keydown")
  /\ \E event \in DispatchKeyEvents, by \in 1..MaxDispatchShortcuts,
        call \in HandlerCalls :
        _onPressWith(event, TIME_DURATION_INSTANT, by, call)

KeyUpOfDispatch ==
  /\ delivers("keyup")
  /\ \E event \in DispatchKeyEvents : _onRelease(event)

NextDispatch == AddDispatchShortcut \/ KeyDownCalling \/ KeyUpOfDispatch

\* Key events whose handlers add and remove shortcuts
SpecDispatch == Init /\ [][NextDispatch]_vars

\* C26: the handlers called for a key-down are exactly those of the entries
\* registered for the matching combo when the key-down is received, in
\* registration order: a handler that calls removeShortcut or addShortcut
\* during the dispatch does not keep an already matched handler from being
\* called, and a shortcut added during the dispatch is not called for that
\* event.
C26_MatchedBeforeDispatch ==
  [][(last'.op = "_onPress" /\ ~last'.ignored) =>
       LET nowPressed ==
             pressedKeyCode \cup {ctrlKeyCodeOr(last'.event.keyCode)}
           Matching(entry) == entry.combo = nowPressed
           matching == SelectSeq(_shortcuts, Matching)
       IN [i \in DOMAIN last'.calls |-> last'.calls[i].callback] =
            [i \in DOMAIN matching |-> matching[i].callback]]_vars

\* C26 witness: the first of two handlers called for a key-down removed the
\* other's shortcut, and the other was called all the same.
C26_Witness ==
  /\ KeyDownDone
  /\ Len(last.calls) = 2
  /\ last.during.op = "removeShortcut" /\ last.during.by = 1
  /\ \A e \in Entries : e.callback # last.calls[2].callback

---------------------------------------------------------------------------
(* The pointer unsubscribed and subscribed between events, under SpecPause *)

\* the host's pointer goes down or up while no listener is subscribed to it
PointerDownUnheard ==
  /\ downButton = {}
  /\ ~delivers("pointerdown")
  /\ \E event \in PointerDownEvents :
        /\ downButton' = {event.button}
        /\ last' = [op |-> "unheard", event |-> event]
  /\ UNCHANGED <<keyboardVars, pointerVars, listeners>>

PointerUpUnheard ==
  /\ downButton # {}
  /\ ~delivers("pointerup")
  /\ \E event \in PointerUpEvents :
        /\ downButton' = {}
        /\ last' = [op |-> "unheard", event |-> event]
  /\ UNCHANGED <<keyboardVars, pointerVars, listeners>>

NextPause ==
  \/ AddGestureDrag \/ pointerSubscribe \/ pointerUnsubscribe
  \/ PointerDown \/ PointerDownUnheard \/ PointerMove
  \/ PointerUp \/ PointerUpUnheard

\* Gestures during which the pointer is unsubscribed and subscribed again
SpecPause == InitPointer /\ [][NextPause]_vars

\* pointer.unsubscribe() was called and pointer.subscribe() not since
pointerPaused ==
  listeners["pointerdown"] = <<>> /\ listeners["pointerup"] = <<>>

\* C27 as stated: after pointer.unsubscribe() no drag callback is called for
\* any later pointer event until pointer.subscribe() is called again, in
\* whatever state the gesture is, Armed and Dragging included.
C27_NoCallWhilePaused ==
  [][(/\ pointerPaused
      /\ last'.op \in {"_onPointerDown", "_onPointerMove", "_onPointerUp"}) =>
       last'.calls = <<>>]_vars

---------------------------------------------------------------------------
(* The two maps of pressed keys, under SpecKeys *)

\* C28: pressed and pressedKeyCode stay in step: for every key code that has
\* a name in the KEY table, hasKeyPress(code) holds, the code being in
\* pressedKeyCode, exactly when the name of the code is in pressed; and when
\* pressedKeyCode is emptied, pressed is empty as well.
C28_PressedInStep ==
  /\ \A code \in DOMAIN _keyByCode :
        /\ hasKeyPress(code) <=> code \in pressedKeyCode
        /\ hasKeyPress(code) <=> _keyByCode[code] \in pressed
  /\ pressedKeyCode = {} => pressed = {}

\* C28 witness: with Ctrl and p pressed, the key-up of p left Ctrl in both
\* maps, under its unified code and the name of that code.
C28_Witness ==
  /\ KeyUpDone
  /\ last.was = {KEY_Ctrl, KEY_p}
  /\ pressedKeyCode = {KEY_Ctrl} /\ pressed = {"Ctrl"}
  /\ hasKeyPress(KEY_Ctrl) /\ ~hasKeyPress(KEY_p)

---------------------------------------------------------------------------
(* Removal and entries without ownerId, under SpecRemoval *)

\* the selector is missing, or an id that no entry was registered with
NoOwnerOf(selector, ids) ==
  \/ selector = undefined
  \/ selector.type = "string" /\ selector \notin ids

\* C29 as stated: an entry registered without ownerId is removed only through
\* its own handler, key-code list or element: removeShortcut and
\* removeDragBehavior called with an undefined (missing) selector, or with an
\* id that was never supplied as ownerId, remove no entry.
C29_UnownedEntriesStay ==
  [][/\ RemoveStep =>
          /\ NoOwnerOf(last'.selector, {e.id : e \in Entries}) =>
               _shortcuts' = _shortcuts
          /\ \A e \in Entries :
                (e.id = undefined /\ e \notin Range(_shortcuts')) =>
                  \/ last'.selector = e.callback
                  \/ /\ last'.selector.type = "list"
                     /\ codesOf(last'.selector) = e.combo
     /\ RemoveDragStep =>
          /\ NoOwnerOf(last'.selector,
                       {_dragNodes[name].id : name \in DOMAIN _dragNodes}) =>
               _dragNodes' = _dragNodes
          /\ \A name \in DOMAIN _dragNodes \ DOMAIN _dragNodes' :
                _dragNodes[name].id = undefined =>
                  \/ last'.selector = Element(name)
                  \/ last'.selector \in
                       {_dragNodes[name].onDrag, _dragNodes[name].onDragStart,
                        _dragNodes[name].onDragEnd}]_vars

---------------------------------------------------------------------------
(* Handlers that throw at the pointer-up, under SpecGesture *)

\* C30: with the entry of the armed element still registered, a pointer-up
\* leaves the gesture Idle (subscribedNode cleared, hadDrag cleared, move
\* listener unsubscribed) also when onDragEnd or onDragUp throws; a following
\* pointer-down that finds an entry arms a fresh gesture, whose first move
\* event is consumed without a handler being called.
C30_IdleThoughHandlerThrows ==
  [][/\ (/\ PointerUpStep
         /\ truthy(subscribedNode)
         /\ dragNodesGet(subscribedNode) # undefined) =>
          /\ ~truthy(subscribedNode')
          /\ ~truthy(hadDrag')
          /\ ~moveSubscribed'
     /\ (ArmingStep /\ ~truthy(subscribedNode)) =>
          /\ truthy(subscribedNode') /\ moveSubscribed'
          /\ pointerMoveCount' = Num(0)
          /\ ~truthy(hadDrag')
     /\ (PointerMoveStep /\ gesture.intact /\ gesture.events = <<"down">>) =>
          (last'.calls = <<>> /\ last'.threw = "none")]_vars

\* C30 witness: onDragEnd threw at the pointer-up of a gesture that had
\* dragged, and the gesture is Idle.
C30_Witness ==
  /\ last.op = "_onPointerUp" /\ last.threw = "onDragEnd"
  /\ rolesOf(last.calls) = <<"onDragEnd">>
  /\ gesture.started
  /\ ~truthy(subscribedNode) /\ ~truthy(hadDrag) /\ ~moveSubscribed

=============================================================================
